---- MODULE Spec2Model ----
(***************************************************************************)
(* A model of pytomorrowio's TomorrowioV4 client: the request batcher      *)
(* (realtime / forecast and their wrappers), the transport adapter         *)
(* (__call_api) and the state one client instance owns (the rate-limit     *)
(* snapshot and the request counter).                                      *)
(*                                                                         *)
(* A Python dict is a function whose domain is its key set, a list is a    *)
(* sequence, and a LookupError (KeyError / IndexError) is a key or index   *)
(* outside the domain.  One action is the code between two awaits.         *)
(***************************************************************************)
EXTENDS Integers, Sequences, FiniteSets, TLC

VARIABLES
    _rate_limits,       \* self._rate_limits: header name -> int
    _num_api_requests,  \* self._num_api_requests
    pc,                 \* "idle" | "call" | "backoff" | "sent" | "returned" | "raised"
    op,                 \* the top-level public operation and its arguments
    subs,               \* the realtime()/forecast() invocations the operation makes
    sub,                \* index in subs of the invocation that is running
    params,             \* forecast(): the envelope built before the chunk loop
    i,                  \* the chunk loop's offset into fields
    ret_data,           \* realtime(): the dict being merged
    forecasts,          \* forecast(): the dict being merged
    all_forecasts,      \* realtime_and_all_forecasts(): its local `forecasts`
    result,             \* what the operation returned
    raised,             \* the exception the operation raised
    resp,               \* __call_api(): the response just received
    sent,               \* history: payloads posted by the running operation
    responses           \* history: the bodies _call_api returned to the operation

vars == <<_rate_limits, _num_api_requests, pc, op, subs, sub, params, i,
          ret_data, forecasts, all_forecasts, result, raised, resp, sent,
          responses>>

-----------------------------------------------------------------------------
(* Bounds of the model *)

\* the per-call field cap the model runs with (the claims hold for every cap)
CapBound == 2
\* the longest field list a caller passes
MaxFields == 5
\* the highest count a caller carries over with reset_num_api_requests=False
MaxCarried == 1
MaxNames == 2

-----------------------------------------------------------------------------
(* Constants of the package *)

MAX_FIELDS_PER_REQUEST == CapBound

DAILY == "daily"
HOURLY == "hourly"
NOWCAST == "nowcast"
FORECASTS == "forecasts"
CURRENT == "current"
TIMESTEP_HOURLY == "1h"
TIMESTEP_DAILY == "1d"
TIMESTEP_CURRENT == "current"

\* timedeltas, in minutes
ONE_DAY == 24 * 60
ONE_HOUR == 60 * 1
THIRTY_MINUTES == 30 * 1
FIFTEEN_MINUTES == 15 * 1
FIVE_MINUTES == 5 * 1
ONE_MINUTE == 1 * 1

HEADER_REMAINING_CALLS_IN_SECOND == "X-RateLimit-Remaining-Second"

HTTPStatus ==
    [OK |-> 200, CREATED |-> 201, PARTIAL_CONTENT |-> 206,
     PERMANENT_REDIRECT |-> 308, BAD_REQUEST |-> 400, UNAUTHORIZED |-> 401,
     FORBIDDEN |-> 403, NOT_FOUND |-> 404, TOO_MANY_REQUESTS |-> 429,
     BAD_GATEWAY |-> 502]

-----------------------------------------------------------------------------
(* Python dict and list primitives *)

EmptyDict == <<>>

\* dict.update(e): keys of e are added, a key already present takes e's value
update(d, e) ==
    [k \in (DOMAIN d) \cup (DOMAIN e) |-> IF k \in DOMAIN e THEN e[k] ELSE d[k]]

Min(a, b) == IF a < b THEN a ELSE b

\* fields[i : i + MAX_FIELDS_PER_REQUEST] (i is a 0-based offset)
ChunkOneShort(fields, at) ==
    SubSeq(fields, at + 1, Min(at + MAX_FIELDS_PER_REQUEST - 1, Len(fields)))

Chunk(fields, at) ==
    SubSeq(fields, at + 1, Min(at + MAX_FIELDS_PER_REQUEST, Len(fields)))

\* range(0, len(fields), MAX_FIELDS_PER_REQUEST)
ChunkOffsets(fields) ==
    {at \in 0..Len(fields) : at < Len(fields) /\ at % MAX_FIELDS_PER_REQUEST = 0}

Range(s) == {s[n] : n \in DOMAIN s}

-----------------------------------------------------------------------------
(* Response headers and the case-insensitive rate-limit snapshot *)

\* str.lower() on the header names the provider uses
lower(k) ==
    CASE k = "Content-Type" -> "content-type"
      [] k = "RateLimit-Limit" -> "ratelimit-limit"
      [] k = "RateLimit-Remaining" -> "ratelimit-remaining"
      [] k = "RateLimit-Reset" -> "ratelimit-reset"
      [] k = "X-RateLimit-Limit-Day" -> "x-ratelimit-limit-day"
      [] k = "X-RateLimit-Limit-Hour" -> "x-ratelimit-limit-hour"
      [] k = "X-RateLimit-Limit-hour" -> "x-ratelimit-limit-hour"
      [] k = "X-RateLimit-Limit-Second" -> "x-ratelimit-limit-second"
      [] k = "X-RateLimit-Remaining-Day" -> "x-ratelimit-remaining-day"
      [] k = "X-RateLimit-Remaining-Hour" -> "x-ratelimit-remaining-hour"
      [] k = "X-RateLimit-Remaining-Second" -> "x-ratelimit-remaining-second"
      [] k = "x-ratelimit-remaining-second" -> "x-ratelimit-remaining-second"
      [] k = "X-RATELIMIT-REMAINING-DAY" -> "x-ratelimit-remaining-day"
      [] OTHER -> k

\* "ratelimit" in s, for a lower-cased header name s
contains_ratelimit(s) ==
    s \in {"ratelimit-limit", "ratelimit-remaining", "ratelimit-reset",
           "x-ratelimit-limit-day", "x-ratelimit-limit-hour",
           "x-ratelimit-limit-second", "x-ratelimit-remaining-day",
           "x-ratelimit-remaining-hour", "x-ratelimit-remaining-second"}

\* int(v) on the decimal strings the provider sends
int(v) ==
    CASE v = "0" -> 0 [] v = "1" -> 1 [] v = "2" -> 2 [] v = "3" -> 3
      [] v = "22" -> 22 [] v = "25" -> 25 [] v = "484" -> 484
      [] v = "500" -> 500

\* CIMultiDict.get(key, default): the key is matched case-insensitively
Get(d, key, default) ==
    IF \E k \in DOMAIN d : lower(k) = lower(key)
    THEN d[CHOOSE k \in DOMAIN d : lower(k) = lower(key)]
    ELSE default

\* the entries of the earlier snapshot are kept
RateLimitsMerged(headers) ==
    update(_rate_limits,
           [k \in {h \in DOMAIN headers : contains_ratelimit(lower(h))} |->
               int(headers[k])])

\* CIMultiDict({k: int(v) for k, v in resp.headers.items()
\*              if "ratelimit" in k.lower()})
RateLimitsOf(headers) ==
    [k \in {h \in DOMAIN headers : contains_ratelimit(lower(h))}
        |-> int(headers[k])]

\* the _remaining_requests_in_second property
_remaining_requests_in_second ==
    Get(_rate_limits, HEADER_REMAINING_CALLS_IN_SECOND, 1)

HEADER_DAILY_API_LIMIT == "X-RateLimit-Limit-hour"

\* the max_requests_per_day property
max_requests_per_day == Get(_rate_limits, HEADER_DAILY_API_LIMIT, 100)

\* the header sets the provider answers with
NoRateLimitHeaders == [k \in {"Content-Type"} |-> "application/json"]

ExhaustedHeaders ==
    [k \in {"Content-Type", "RateLimit-Limit", "RateLimit-Remaining",
            "RateLimit-Reset", "X-RateLimit-Limit-Day", "X-RateLimit-Limit-Hour",
            "X-RateLimit-Limit-Second", "X-RateLimit-Remaining-Day",
            "X-RateLimit-Remaining-Hour", "X-RateLimit-Remaining-Second"} |->
        CASE k = "Content-Type" -> "application/json"
          [] k = "RateLimit-Limit" -> "3"
          [] k = "RateLimit-Remaining" -> "0"
          [] k = "RateLimit-Reset" -> "1"
          [] k = "X-RateLimit-Limit-Day" -> "500"
          [] k = "X-RateLimit-Limit-Hour" -> "25"
          [] k = "X-RateLimit-Limit-Second" -> "3"
          [] k = "X-RateLimit-Remaining-Day" -> "484"
          [] k = "X-RateLimit-Remaining-Hour" -> "22"
          [] k = "X-RateLimit-Remaining-Second" -> "0"]

MixedCaseHeaders ==
    [k \in {"Content-Type", "x-ratelimit-remaining-second",
            "X-RATELIMIT-REMAINING-DAY"} |->
        CASE k = "Content-Type" -> "application/json"
          [] k = "x-ratelimit-remaining-second" -> "2"
          [] k = "X-RATELIMIT-REMAINING-DAY" -> "3"]

HeaderSets == {"none", "exhausted", "mixed"}

HeadersNamed(h) ==
    CASE h = "none" -> NoRateLimitHeaders
      [] h = "exhausted" -> ExhaustedHeaders
      [] h = "mixed" -> MixedCaseHeaders

-----------------------------------------------------------------------------
(* What the provider answers *)

\* the names callers ask for (keys of FIELDS_V4)
FieldName(n) ==
    CASE n = 1 -> "temperature"
      [] n = 2 -> "humidity"
      [] n = 3 -> "windSpeed"
      [] n = 4 -> "dewPoint"
      [] n = 5 -> "windGust"
      [] n = 6 -> "cloudCover"
      [] n = 7 -> "visibility"
      [] OTHER -> "weatherCode"

FieldList(n) == [k \in 1..n |-> FieldName(k)]

\* the value the provider reports for any field at time t in its k-th answer
ValueAt(k, t) == 10 * k + t

Interval(t, keys, k) ==
    [startTime |-> t, values |-> [f \in keys |-> ValueAt(k, t)]]

Intervals(grid, keys, k) ==
    [n \in DOMAIN grid |-> Interval(grid[n], keys, k)]

\* one timeline per requested timestep, each with values of its own
Timelines(timesteps, grid, keys, k) ==
    [n \in DOMAIN timesteps |->
        [timestep |-> timesteps[n],
         intervals |-> Intervals(grid, keys, k + 10 * (n - 1))]]

BaseGrid == <<1, 2>>
ShortGrid == <<1>>
LongGrid == <<1, 2, 3>>

\* success bodies: well-formed ones and ones that lack part of the structure
GoodShapes == {"exact", "extra", "short", "long"}
BadShapes == {"no_data", "no_timelines", "empty_timelines", "no_timestep",
              "no_intervals", "empty_intervals", "no_values"}
Shapes == GoodShapes \cup BadShapes

OkBody(timelines) == [data |-> [timelines |-> timelines]]

\* the JSON body of the k-th answer, to payload p
Body(shape, p, k) ==
    LET ts == p.timesteps
        keys == Range(p.fields)
    IN CASE shape = "exact" -> OkBody(Timelines(ts, BaseGrid, keys, k))
         [] shape = "extra" ->
              OkBody(Timelines(ts, BaseGrid, keys \cup {FieldName(1)}, k))
         [] shape = "short" -> OkBody(Timelines(ts, ShortGrid, keys, k))
         [] shape = "long" -> OkBody(Timelines(ts, LongGrid, keys, k))
         [] shape = "no_data" -> EmptyDict
         [] shape = "no_timelines" -> [data |-> EmptyDict]
         [] shape = "empty_timelines" -> OkBody(<<>>)
         [] shape = "no_timestep" ->
              OkBody([n \in DOMAIN ts |->
                        [intervals |-> Intervals(BaseGrid, keys, k)]])
         [] shape = "no_intervals" ->
              OkBody([n \in DOMAIN ts |-> [timestep |-> ts[n]]])
         [] shape = "empty_intervals" ->
              OkBody([n \in DOMAIN ts |-> [timestep |-> ts[n], intervals |-> <<>>]])
         [] shape = "no_values" ->
              OkBody([n \in DOMAIN ts |->
                        [timestep |-> ts[n],
                         intervals |-> [m \in DOMAIN BaseGrid |->
                                          [startTime |-> BaseGrid[m]]]]])

\* the body of an error answer
ErrorBody(shape) ==
    IF shape = "no_data"
    THEN EmptyDict
    ELSE [code |-> 400001, type |-> "Invalid Body Parameters",
          message |-> "The entries provided as parameters were not valid"]

-----------------------------------------------------------------------------
(* Exceptions *)

NoException == [kind |-> "none", args |-> <<>>]
Exception(kind, args) == [kind |-> kind, args |-> args]

-----------------------------------------------------------------------------
(* The field catalog *)

\* timedelta(0): the instantaneous resolution of realtime
REALTIME == 0 * 1

VALID_TIMESTEPS ==
    {REALTIME, ONE_MINUTE, FIVE_MINUTES, FIFTEEN_MINUTES, THIRTY_MINUTES,
     ONE_HOUR, ONE_DAY}

TYPE_WEATHER == "weather"
TYPE_POLLEN == "pollen"
TYPE_AIR_QUALITY == "air_quality"
TYPE_FIRE == "fire"
TYPE_SOLAR == "solar"
TYPE_PRECIPITATION == "precipitation"

MIN == "Min"
MAX == "Max"
AVG == "Avg"

ALL_MEASUREMENTS == <<MIN, MAX, AVG>>
NO_AVG == <<MIN, MAX>>

FieldDefinition(max_timestep, measurements, type) ==
    [max_timestep |-> max_timestep, measurements |-> measurements, type |-> type]

\* one "name": FieldDefinition(...) item of the FIELDS_V4 literal
Field(name, definition) == [name |-> name, definition |-> definition]

\* the items of the FIELDS_V4 literal, in the order they are written
FieldTable ==
    << Field("temperature", FieldDefinition(ONE_DAY, ALL_MEASUREMENTS, TYPE_WEATHER)),
       Field("temperatureApparent", FieldDefinition(ONE_DAY, ALL_MEASUREMENTS, TYPE_WEATHER)),
       Field("dewPoint", FieldDefinition(ONE_DAY, ALL_MEASUREMENTS, TYPE_WEATHER)),
       Field("humidity", FieldDefinition(ONE_DAY, ALL_MEASUREMENTS, TYPE_WEATHER)),
       Field("windSpeed", FieldDefinition(ONE_DAY, ALL_MEASUREMENTS, TYPE_WEATHER)),
       Field("windDirection", FieldDefinition(ONE_DAY, <<AVG>>, TYPE_WEATHER)),
       Field("windGust", FieldDefinition(ONE_DAY, ALL_MEASUREMENTS, TYPE_WEATHER)),
       Field("pressureSurfaceLevel", FieldDefinition(ONE_DAY, ALL_MEASUREMENTS, TYPE_WEATHER)),
       Field("pressureSeaLevel", FieldDefinition(ONE_DAY, ALL_MEASUREMENTS, TYPE_WEATHER)),
       Field("precipitationIntensity", FieldDefinition(ONE_DAY, ALL_MEASUREMENTS, TYPE_PRECIPITATION)),
       Field("precipitationProbability", FieldDefinition(ONE_DAY, ALL_MEASUREMENTS, TYPE_PRECIPITATION)),
       Field("precipitationType", FieldDefinition(ONE_HOUR, <<>>, TYPE_PRECIPITATION)),
       Field("hailBinary", FieldDefinition(REALTIME, <<>>, TYPE_PRECIPITATION)),
       Field("solarGHI", FieldDefinition(ONE_DAY, ALL_MEASUREMENTS, TYPE_SOLAR)),
       Field("solarDNI", FieldDefinition(ONE_DAY, ALL_MEASUREMENTS, TYPE_SOLAR)),
       Field("solarDHI", FieldDefinition(ONE_DAY, ALL_MEASUREMENTS, TYPE_SOLAR)),
       Field("visibility", FieldDefinition(ONE_DAY, ALL_MEASUREMENTS, TYPE_WEATHER)),
       Field("cloudCover", FieldDefinition(ONE_DAY, ALL_MEASUREMENTS, TYPE_WEATHER)),
       Field("cloudBase", FieldDefinition(ONE_DAY, ALL_MEASUREMENTS, TYPE_WEATHER)),
       Field("cloudCeiling", FieldDefinition(ONE_DAY, ALL_MEASUREMENTS, TYPE_WEATHER)),
       Field("weatherCode", FieldDefinition(ONE_DAY, NO_AVG, TYPE_WEATHER)),
       Field("particulateMatter25", FieldDefinition(ONE_HOUR, ALL_MEASUREMENTS, TYPE_AIR_QUALITY)),
       Field("particulateMatter10", FieldDefinition(ONE_HOUR, ALL_MEASUREMENTS, TYPE_AIR_QUALITY)),
       Field("pollutantO3", FieldDefinition(ONE_HOUR, ALL_MEASUREMENTS, TYPE_AIR_QUALITY)),
       Field("pollutantNO2", FieldDefinition(ONE_HOUR, ALL_MEASUREMENTS, TYPE_AIR_QUALITY)),
       Field("pollutantCO", FieldDefinition(ONE_HOUR, ALL_MEASUREMENTS, TYPE_AIR_QUALITY)),
       Field("pollutantSO2", FieldDefinition(ONE_HOUR, ALL_MEASUREMENTS, TYPE_AIR_QUALITY)),
       Field("mepIndex", FieldDefinition(ONE_HOUR, ALL_MEASUREMENTS, TYPE_AIR_QUALITY)),
       Field("mepPrimaryPollutant", FieldDefinition(ONE_HOUR, <<>>, TYPE_AIR_QUALITY)),
       Field("mepHealthConcern", FieldDefinition(ONE_HOUR, ALL_MEASUREMENTS, TYPE_AIR_QUALITY)),
       Field("epaIndex", FieldDefinition(ONE_HOUR, ALL_MEASUREMENTS, TYPE_AIR_QUALITY)),
       Field("epaPrimaryPollutant", FieldDefinition(ONE_HOUR, <<>>, TYPE_AIR_QUALITY)),
       Field("epaHealthConcern", FieldDefinition(ONE_HOUR, ALL_MEASUREMENTS, TYPE_AIR_QUALITY)),
       Field("treeIndex", FieldDefinition(ONE_HOUR, ALL_MEASUREMENTS, TYPE_POLLEN)),
       Field("grassIndex", FieldDefinition(ONE_HOUR, ALL_MEASUREMENTS, TYPE_POLLEN)),
       Field("grassGrassIndex", FieldDefinition(ONE_HOUR, ALL_MEASUREMENTS, TYPE_POLLEN)),
       Field("weedIndex", FieldDefinition(ONE_HOUR, ALL_MEASUREMENTS, TYPE_POLLEN)),
       Field("weedRagweedIndex", FieldDefinition(ONE_HOUR, ALL_MEASUREMENTS, TYPE_POLLEN)),
       Field("fireIndex", FieldDefinition(REALTIME, ALL_MEASUREMENTS, TYPE_FIRE))>>

\* list(FIELDS_V4): the keys in insertion order
FieldNames == [n \in DOMAIN FieldTable |-> FieldTable[n].name]

FIELDS_V4 ==
    [name \in Range(FieldNames) |->
        FieldTable[CHOOSE n \in DOMAIN FieldTable : FieldTable[n].name = name]
            .definition]

-----------------------------------------------------------------------------
(* Pure helpers of pytomorrowio.py *)

ValidMinutes == {THIRTY_MINUTES, FIFTEEN_MINUTES, FIVE_MINUTES, ONE_MINUTE}

\* _timedelta_to_str raises InvalidTimestep
InvalidTimedelta(timestep) ==
    timestep # ONE_DAY /\ timestep # ONE_HOUR /\ timestep \notin ValidMinutes

_timedelta_to_str(timestep) ==
    IF timestep = ONE_DAY THEN TIMESTEP_DAILY
    ELSE IF timestep = ONE_HOUR THEN TIMESTEP_HOURLY
    ELSE CASE timestep = THIRTY_MINUTES -> "30m"
           [] timestep = FIFTEEN_MINUTES -> "15m"
           [] timestep = FIVE_MINUTES -> "5m"
           [] timestep = ONE_MINUTE -> "1m"

_timestep_to_key(timestep) ==
    IF timestep = TIMESTEP_DAILY THEN DAILY
    ELSE IF timestep = TIMESTEP_HOURLY THEN HOURLY
    ELSE NOWCAST

\* what a synchronous call ends with
Returns(value) == [raised |-> NoException, value |-> value]
Raises(exc) == [raised |-> exc, value |-> EmptyDict]

\* an Optional[List[str]] argument
None == [given |-> FALSE, list |-> <<>>]
Some(list) == [given |-> TRUE, list |-> list]

\* bool(x) of an Optional[List[str]]: None and [] are falsy
truthy(x) == x.given /\ Len(x.list) > 0

\* a field is kept only when the timestep is strictly below its max_timestep
process_v4_fields_strict(fields, timestep, write_log) ==
    LET valid_fields == SelectSeq(fields, LAMBDA field : field \in DOMAIN FIELDS_V4)
        processed_fields ==
            SelectSeq(valid_fields,
                      LAMBDA field : timestep < FIELDS_V4[field].max_timestep)
    IN [value |-> processed_fields,
        warnings |->
            (IF write_log /\ Len(valid_fields) < Len(fields)
             THEN <<[msg |-> "Removed invalid fields: %s",
                     args |-> <<Range(fields) \ Range(valid_fields)>>]>>
             ELSE <<>>)
            \o
            (IF write_log /\ Len(processed_fields) < Len(valid_fields)
             THEN <<[msg |-> "Removed fields not available for %s timestep: %s",
                     args |-> <<timestep,
                                Range(valid_fields) \ Range(processed_fields)>>]>>
             ELSE <<>>)]

\* the list returned and the warnings logged; list(set(a) - set(b)) is a set
\* (the second message is written without its backquotes)
process_v4_fields(fields, timestep, write_log) ==
    LET valid_fields == SelectSeq(fields, LAMBDA field : field \in DOMAIN FIELDS_V4)
        processed_fields ==
            SelectSeq(valid_fields,
                      LAMBDA field : timestep <= FIELDS_V4[field].max_timestep)
    IN [value |-> processed_fields,
        warnings |->
            (IF write_log /\ Len(valid_fields) < Len(fields)
             THEN <<[msg |-> "Removed invalid fields: %s",
                     args |-> <<Range(fields) \ Range(valid_fields)>>]>>
             ELSE <<>>)
            \o
            (IF write_log /\ Len(processed_fields) < Len(valid_fields)
             THEN <<[msg |-> "Removed fields not available for %s timestep: %s",
                     args |-> <<timestep,
                                Range(valid_fields) \ Range(processed_fields)>>]>>
             ELSE <<>>)]

\* the test against VALID_TIMESTEPS is left out
available_fields_unchecked(timestep, types) ==
    LET fields == process_v4_fields(FieldNames, timestep, FALSE).value
    IN IF truthy(types)
       THEN Returns(SelectSeq(fields,
                LAMBDA field : FIELDS_V4[field].type \in Range(types.list)))
       ELSE Returns(fields)

available_fields(timestep, types) ==
    IF timestep \notin VALID_TIMESTEPS
    THEN Raises(Exception("InvalidTimestep", <<timestep>>))
    ELSE LET fields == process_v4_fields(FieldNames, timestep, FALSE).value
         IN IF truthy(types)
            THEN Returns(SelectSeq(fields,
                     LAMBDA field : FIELDS_V4[field].type \in Range(types.list)))
            ELSE Returns(fields)

\* a field with one measurement is suffixed too
MeasurementsOfAny(field) ==
    LET measurements == FIELDS_V4[field].measurements
    IN IF Len(measurements) < 1
       THEN <<field>>
       ELSE [m \in DOMAIN measurements |-> field \o measurements[m]]

\* what one pass of the loop of convert_fields_to_measurements adds to field_list
MeasurementsOf(field) ==
    LET measurements == FIELDS_V4[field].measurements
    IN IF Len(measurements) < 2
       THEN <<field>>
       ELSE [m \in DOMAIN measurements |-> field \o measurements[m]]

\* the loop from the n-th field on; FIELDS_V4[field] raises KeyError
RECURSIVE ConvertFrom(_, _, _)
ConvertFrom(fields, n, field_list) ==
    IF n > Len(fields) THEN Returns(field_list)
    ELSE IF fields[n] \notin DOMAIN FIELDS_V4
         THEN Raises(Exception("KeyError", <<fields[n]>>))
         ELSE ConvertFrom(fields, n + 1, field_list \o MeasurementsOf(fields[n]))

convert_fields_to_measurements(fields) == ConvertFrom(fields, 1, <<>>)

-----------------------------------------------------------------------------
(* realtime(): ret_data.update(data["data"]["timelines"][0]["intervals"][0]["values"]) *)

\* the lookup raises a LookupError
RealtimeLookupError(data) ==
    \/ "data" \notin DOMAIN data
    \/ "timelines" \notin DOMAIN data.data
    \/ Len(data.data.timelines) = 0
    \/ "intervals" \notin DOMAIN data.data.timelines[1]
    \/ Len(data.data.timelines[1].intervals) = 0
    \/ "values" \notin DOMAIN data.data.timelines[1].intervals[1]

\* the earlier chunk's value is kept for a key both carry
MergeRealtimeKeepOld(rd, data) ==
    IF RealtimeLookupError(data)
    THEN [ok |-> FALSE, value |-> rd]
    ELSE [ok |-> TRUE,
          value |-> update(data.data.timelines[1].intervals[1].values, rd)]

MergeRealtime(rd, data) ==
    IF RealtimeLookupError(data)
    THEN [ok |-> FALSE, value |-> rd]
    ELSE [ok |-> TRUE,
          value |-> update(rd, data.data.timelines[1].intervals[1].values)]

-----------------------------------------------------------------------------
(* forecast(): the loop over data["data"]["timelines"] *)

\* the positional update of the stored intervals raises a LookupError
IntervalLookupError(stored, timeline) ==
    \E idx \in 1..Len(stored) :
        \/ "values" \notin DOMAIN stored[idx]
        \/ "intervals" \notin DOMAIN timeline
        \/ idx > Len(timeline.intervals)
        \/ "values" \notin DOMAIN timeline.intervals[idx]

\* the earlier chunk's value is kept for a key both carry
UpdateIntervalsKeepOld(stored, timeline) ==
    [idx \in 1..Len(stored) |->
        [stored[idx] EXCEPT
            !.values = update(timeline.intervals[idx].values, @)]]

\* forecasts[forecast_type][idx]["values"].update(timeline["intervals"][idx]["values"])
UpdateIntervals(stored, timeline) ==
    [idx \in 1..Len(stored) |->
        [stored[idx] EXCEPT
            !.values = update(@, timeline.intervals[idx].values)]]

\* every chunk's timeline replaces the stored one
MergeTimelineReplace(fc, timeline) ==
    IF "timestep" \notin DOMAIN timeline \/ "intervals" \notin DOMAIN timeline
    THEN [ok |-> FALSE, value |-> fc]
    ELSE [ok |-> TRUE,
          value |-> update(fc, [k \in {_timestep_to_key(timeline.timestep)} |->
                                   timeline.intervals])]

\* one iteration of `for timeline in data["data"]["timelines"]`
MergeTimeline(fc, timeline) ==
    IF "timestep" \notin DOMAIN timeline
    THEN [ok |-> FALSE, value |-> fc]
    ELSE LET forecast_type == _timestep_to_key(timeline.timestep)
         IN IF forecast_type \notin DOMAIN fc
            THEN IF "intervals" \notin DOMAIN timeline
                 THEN [ok |-> FALSE, value |-> fc]
                 ELSE [ok |-> TRUE,
                       value |-> update(fc, [k \in {forecast_type} |->
                                                timeline.intervals])]
            ELSE IF IntervalLookupError(fc[forecast_type], timeline)
                 THEN [ok |-> FALSE, value |-> fc]
                 ELSE [ok |-> TRUE,
                       value |-> [fc EXCEPT ![forecast_type] =
                                     UpdateIntervals(@, timeline)]]

RECURSIVE MergeTimelines(_, _, _)
MergeTimelines(fc, timelines, n) ==
    IF n > Len(timelines)
    THEN [ok |-> TRUE, value |-> fc]
    ELSE LET m == MergeTimeline(fc, timelines[n])
         IN IF m.ok THEN MergeTimelines(m.value, timelines, n + 1) ELSE m

\* a body without data contributes nothing
MergeForecastNoData(fc, data) ==
    IF "data" \notin DOMAIN data
    THEN [ok |-> TRUE, value |-> fc]
    ELSE IF "timelines" \notin DOMAIN data.data
         THEN [ok |-> FALSE, value |-> fc]
         ELSE MergeTimelines(fc, data.data.timelines, 1)

\* a body without data.timelines contributes nothing
MergeForecastLenient(fc, data) ==
    IF "data" \notin DOMAIN data \/ "timelines" \notin DOMAIN data.data
    THEN [ok |-> TRUE, value |-> fc]
    ELSE MergeTimelines(fc, data.data.timelines, 1)

MergeForecast(fc, data) ==
    IF "data" \notin DOMAIN data \/ "timelines" \notin DOMAIN data.data
    THEN [ok |-> FALSE, value |-> fc]
    ELSE MergeTimelines(fc, data.data.timelines, 1)

-----------------------------------------------------------------------------
(* __call_api(): what a response's status leads to *)

\* the increment is left out
NotCounted(num) == num

\* self._num_api_requests += 1
Counted(num) == num + 1

\* 403 is left out of the credential statuses
ClassifyWithout403(status) ==
    IF status \in {HTTPStatus.OK, HTTPStatus.PARTIAL_CONTENT} THEN "return"
    ELSE IF status = HTTPStatus.BAD_REQUEST THEN "MalformedRequestException"
    ELSE IF status = HTTPStatus.UNAUTHORIZED THEN "InvalidAPIKeyException"
    ELSE IF status = HTTPStatus.TOO_MANY_REQUESTS THEN "RateLimitedException"
    ELSE IF status >= 400 THEN "ClientResponseError"
    ELSE "UnknownException"

\* resp.raise_for_status() is left out
ClassifyWrapAll(status) ==
    IF status \in {HTTPStatus.OK, HTTPStatus.PARTIAL_CONTENT} THEN "return"
    ELSE IF status = HTTPStatus.BAD_REQUEST THEN "MalformedRequestException"
    ELSE IF status \in {HTTPStatus.UNAUTHORIZED, HTTPStatus.FORBIDDEN}
         THEN "InvalidAPIKeyException"
    ELSE IF status = HTTPStatus.TOO_MANY_REQUESTS THEN "RateLimitedException"
    ELSE "UnknownException"

Classify(status) ==
    IF status \in {HTTPStatus.OK, HTTPStatus.PARTIAL_CONTENT} THEN "return"
    ELSE IF status = HTTPStatus.BAD_REQUEST THEN "MalformedRequestException"
    ELSE IF status \in {HTTPStatus.UNAUTHORIZED, HTTPStatus.FORBIDDEN}
         THEN "InvalidAPIKeyException"
    ELSE IF status = HTTPStatus.TOO_MANY_REQUESTS THEN "RateLimitedException"
    ELSE IF status >= 400 THEN "ClientResponseError"   \* resp.raise_for_status()
    ELSE "UnknownException"

-----------------------------------------------------------------------------
(* The request envelope *)

\* self._params
_params == [location |-> "28.4195,-81.5812", units |-> "imperial"]

RealtimeParams == [timesteps |-> <<TIMESTEP_CURRENT>>]

\* an Optional[datetime]: None, or wall-clock seconds and microseconds with
\* either no tzinfo or a tzinfo of the given utcoffset (in seconds)
NoDatetime == [given |-> FALSE]
datetime(seconds, microsecond, aware, utcoffset) ==
    [given |-> TRUE, seconds |-> seconds, microsecond |-> microsecond,
     aware |-> aware, utcoffset |-> utcoffset]

\* an Optional[timedelta] of whole seconds
NoTimedelta == [given |-> FALSE]
timedelta(seconds) == [given |-> TRUE, seconds |-> seconds]

\* datetime.now(tz=timezone.utc)
Now == datetime(1000, 7, TRUE, 0)

\* datetime.isoformat(): the fraction is printed only when it is not zero,
\* the offset only for an aware datetime
isoformat(dt) ==
    "T" \o ToString(dt.seconds)
        \o (IF dt.microsecond = 0 THEN "" ELSE "." \o ToString(dt.microsecond))
        \o (IF ~dt.aware THEN ""
            ELSE IF dt.utcoffset >= 0 THEN "+" \o ToString(dt.utcoffset)
            ELSE "-" \o ToString(0 - dt.utcoffset))

\* the start forecast() goes on with: the result of
\* start_time.replace(tzinfo=timezone.utc) is not assigned, and no conversion
\* to UTC is made
StartOf(start_time) == IF start_time.given THEN start_time ELSE Now

\* bool(duration): None and timedelta(0) are falsy
HasDuration(duration) == duration.given /\ duration.seconds # 0

ForecastParams(timesteps, start_time, duration) ==
    LET start == StartOf(start_time)
    IN update([timesteps |-> [n \in DOMAIN timesteps |->
                                 _timedelta_to_str(timesteps[n])],
               startTime |-> isoformat([start EXCEPT !.microsecond = 0])],
              IF HasDuration(duration)
              THEN [endTime |-> isoformat([start EXCEPT
                                             !.seconds = @ + duration.seconds,
                                             !.microsecond = 0])]
              ELSE EmptyDict)

\* payload = {**self._params, **params} with "fields": fields[i : i + cap]
Payload(p, fields, at) ==
    update(update(_params, p), [fields |-> Chunk(fields, at)])

-----------------------------------------------------------------------------
(* The synchronous code between two awaits, on the record of the locals *)

NoResponse == [status |-> 0, headers |-> EmptyDict, json |-> EmptyDict]

Frame ==
    [pc |-> pc, sub |-> sub, num |-> _num_api_requests, params |-> params,
     i |-> i, ret_data |-> ret_data, forecasts |-> forecasts,
     all_forecasts |-> all_forecasts, result |-> result, raised |-> raised]

\* what was merged so far is handed to the caller with the exception
RaiseWithPartial(f, exc) ==
    [f EXCEPT !.pc = "raised", !.raised = exc, !.params = EmptyDict, !.i = 0,
              !.result = update(f.forecasts, f.ret_data),
              !.ret_data = EmptyDict, !.forecasts = EmptyDict,
              !.all_forecasts = EmptyDict]

\* the locals go out of scope when the operation ends
Raise(f, exc) ==
    [f EXCEPT !.pc = "raised", !.raised = exc, !.params = EmptyDict, !.i = 0,
              !.ret_data = EmptyDict, !.forecasts = EmptyDict,
              !.all_forecasts = EmptyDict]

Return(f, value) ==
    [f EXCEPT !.pc = "returned", !.result = value, !.params = EmptyDict, !.i = 0,
              !.ret_data = EmptyDict, !.forecasts = EmptyDict,
              !.all_forecasts = EmptyDict]

RECURSIVE EnterSub(_, _, _)
RECURSIVE LeaveSub(_, _, _, _)

\* realtime() / forecast() from its first line to its first await
EnterSub(f, ss, o) ==
    LET s == ss[f.sub]
        g == [f EXCEPT !.num = IF s.reset THEN 0 ELSE @, !.i = 0,
                       !.params = EmptyDict, !.ret_data = EmptyDict,
                       !.forecasts = EmptyDict]
    IN IF s.kind = "realtime"
       THEN IF Len(s.fields) = 0
            THEN LeaveSub(g, ss, o, EmptyDict)
            ELSE [g EXCEPT !.pc = "call", !.params = RealtimeParams]
       ELSE IF \E n \in DOMAIN s.timesteps : InvalidTimedelta(s.timesteps[n])
            THEN Raise(g, Exception("InvalidTimestep", <<>>))
            ELSE IF Len(s.fields) = 0
                 THEN LeaveSub(g, ss, o, EmptyDict)
                 ELSE [g EXCEPT !.pc = "call",
                                !.params = ForecastParams(s.timesteps,
                                                         s.start_time,
                                                         s.duration)]

\* forecasts is replaced by the value, not updated with it
LeaveSubReplace(f, ss, o, value) ==
    IF o.name = "realtime_and_all_forecasts"
    THEN IF ss[f.sub].kind = "forecast"
         THEN EnterSub([f EXCEPT !.sub = @ + 1, !.all_forecasts = value], ss, o)
         ELSE Return(f, [current |-> value, forecasts |-> f.all_forecasts])
    ELSE IF o.name \in {"forecast_nowcast", "forecast_daily", "forecast_hourly"}
         THEN IF o.key \in DOMAIN value
              THEN Return(f, value[o.key])
              ELSE Raise(f, Exception("KeyError", <<o.key>>))
         ELSE Return(f, value)

\* what the caller of realtime() / forecast() does with the value it returns
LeaveSub(f, ss, o, value) ==
    IF o.name = "realtime_and_all_forecasts"
    THEN IF ss[f.sub].kind = "forecast"
         THEN EnterSub([f EXCEPT !.sub = @ + 1,
                                 !.all_forecasts = update(@, value)], ss, o)
         ELSE Return(f, [current |-> value, forecasts |-> f.all_forecasts])
    ELSE IF o.name \in {"forecast_nowcast", "forecast_daily", "forecast_hourly"}
         THEN IF o.key \in DOMAIN value
              THEN Return(f, value[o.key])
              ELSE Raise(f, Exception("KeyError", <<o.key>>))
         ELSE Return(f, value)

\* __call_api() from the response to its return or raise, then the merge and
\* the chunk loop of realtime() / forecast()
AfterResponse(f, ss, o, status, headers, resp_json) ==
    LET c == Classify(status)
        s == ss[f.sub]
    IN IF c = "return"
       THEN LET g == [f EXCEPT !.num = Counted(@)]
                m == IF s.kind = "realtime"
                     THEN MergeRealtime(f.ret_data, resp_json)
                     ELSE MergeForecast(f.forecasts, resp_json)
                h == IF s.kind = "realtime"
                     THEN [g EXCEPT !.ret_data = m.value]
                     ELSE [g EXCEPT !.forecasts = m.value]
            IN IF ~m.ok
               THEN Raise(g, Exception("UnknownException", <<resp_json>>))
               ELSE IF f.i + MAX_FIELDS_PER_REQUEST < Len(s.fields)
                    THEN [h EXCEPT !.pc = "call",
                                   !.i = @ + MAX_FIELDS_PER_REQUEST]
                    ELSE LeaveSub(h, ss, o, m.value)
       ELSE IF c = "ClientResponseError"
            THEN Raise(f, Exception(c, <<status>>))
            ELSE Raise(f, Exception(c, <<resp_json, headers>>))

\* the locals take the values of the record
SetFrame(f) ==
    /\ pc' = f.pc
    /\ sub' = f.sub
    /\ _num_api_requests' = f.num
    /\ params' = f.params
    /\ i' = f.i
    /\ ret_data' = f.ret_data
    /\ forecasts' = f.forecasts
    /\ all_forecasts' = f.all_forecasts
    /\ result' = f.result
    /\ raised' = f.raised

-----------------------------------------------------------------------------
(* Arguments callers pass *)

FieldLists ==
    {FieldList(n) : n \in 0..MaxFields}
        \cup {<<FieldName(1), FieldName(1), FieldName(2)>>}

ShortFieldLists ==
    {FieldList(n) : n \in {0, 1, Min(MaxFields, MAX_FIELDS_PER_REQUEST + 1)}}

\* Optional[List[str]]: None and [] are both falsy, and only truth is tested
OptionalFieldLists == {<<>>, FieldList(1)}

TimestepLists ==
    {<<ONE_DAY>>, <<FIVE_MINUTES, ONE_HOUR, ONE_DAY>>,
     <<ONE_MINUTE, FIVE_MINUTES>>, <<ONE_HOUR, 99>>}

NowcastTimesteps == {FIVE_MINUTES, ONE_MINUTE, 99}

RealtimeSub(fields, reset) ==
    [kind |-> "realtime", timesteps |-> <<>>, fields |-> fields, reset |-> reset]

ForecastSubAt(timesteps, fields, start_time, duration, reset) ==
    [kind |-> "forecast", timesteps |-> timesteps, fields |-> fields,
     start_time |-> start_time, duration |-> duration, reset |-> reset]

\* start_time and duration left at their default, None
ForecastSub(timesteps, fields, reset) ==
    ForecastSubAt(timesteps, fields, NoDatetime, NoTimedelta, reset)

-----------------------------------------------------------------------------
(* The public operations: from the call to the first await *)

Call(o, ss, num) ==
    /\ pc = "idle"
    /\ ss[1].reset \/ num <= MaxCarried
    /\ op' = o
    /\ subs' = ss
    /\ sent' = <<>>
    /\ responses' = <<>>
    /\ resp' = NoResponse
    /\ UNCHANGED _rate_limits
    /\ LET f == [Frame EXCEPT !.sub = 1, !.num = num, !.result = EmptyDict,
                              !.raised = NoException, !.all_forecasts = EmptyDict]
       IN SetFrame(IF o.name = "realtime_and_all_forecasts" /\ o.error # ""
                   THEN Raise(f, Exception("ValueError", <<o.error>>))
                   ELSE EnterSub(f, ss, o))

realtime ==
    \E fields \in FieldLists, reset_num_api_requests \in BOOLEAN :
        Call([name |-> "realtime", fields |-> fields],
             <<RealtimeSub(fields, reset_num_api_requests)>>, _num_api_requests)

\* the (start_time, duration) pairs forecast() is called with: the defaults,
\* a naive start, a start in UTC and a start two hours east of UTC
TimeWindows ==
    {<<NoDatetime, NoTimedelta>>,
     <<datetime(2000, 5, FALSE, 0), timedelta(60)>>,
     <<datetime(2000, 0, TRUE, 0), NoTimedelta>>,
     <<datetime(9200, 5, TRUE, 7200), timedelta(60)>>}

forecast ==
    \E timesteps \in TimestepLists, fields \in ShortFieldLists,
       window \in TimeWindows, reset_num_api_requests \in BOOLEAN :
        Call([name |-> "forecast", fields |-> fields],
             <<ForecastSubAt(timesteps, fields, window[1], window[2],
                             reset_num_api_requests)>>,
             _num_api_requests)

forecast_nowcast ==
    \E fields \in ShortFieldLists, timestep \in NowcastTimesteps :
        Call([name |-> "forecast_nowcast", fields |-> fields, key |-> NOWCAST],
             <<ForecastSub(<<timestep>>, fields, TRUE)>>, _num_api_requests)

forecast_daily ==
    \E fields \in FieldLists :
        Call([name |-> "forecast_daily", fields |-> fields, key |-> DAILY],
             <<ForecastSub(<<ONE_DAY>>, fields, TRUE)>>, _num_api_requests)

forecast_hourly ==
    \E fields \in ShortFieldLists :
        Call([name |-> "forecast_hourly", fields |-> fields, key |-> HOURLY],
             <<ForecastSub(<<ONE_HOUR>>, fields, TRUE)>>, _num_api_requests)

all_forecasts_op ==
    \E fields \in ShortFieldLists, nowcast_timestep \in {FIVE_MINUTES} :
        Call([name |-> "all_forecasts", fields |-> fields],
             <<ForecastSub(<<nowcast_timestep, ONE_HOUR, ONE_DAY>>, fields, TRUE)>>,
             _num_api_requests)

\* the forecast() invocations realtime_and_all_forecasts makes, in order
\* (a: all_forecasts_fields, n: nowcast_fields, h: hourly_fields,
\*  d: daily_fields)
ForecastSubs(a, n, h, d, nowcast_timestep) ==
    IF Len(a) > 0
    THEN <<ForecastSub(<<nowcast_timestep, ONE_HOUR, ONE_DAY>>, a, FALSE)>>
    ELSE SelectSeq(<<ForecastSub(<<nowcast_timestep>>, n, FALSE),
                     ForecastSub(<<ONE_HOUR>>, h, FALSE),
                     ForecastSub(<<ONE_DAY>>, d, FALSE)>>,
                   LAMBDA s : Len(s.fields) > 0)

\* the second test, for both input modes together, is left out
FieldListsErrorOnlyEmpty(a, n, h, d) ==
    IF Len(a) = 0 /\ Len(n) = 0 /\ Len(h) = 0 /\ Len(d) = 0
    THEN "At least one field list must be specified"
    ELSE ""

\* the ValueError realtime_and_all_forecasts raises for its arguments
FieldListsError(a, n, h, d) ==
    IF Len(a) = 0 /\ Len(n) = 0 /\ Len(h) = 0 /\ Len(d) = 0
    THEN "At least one field list must be specified"
    ELSE IF Len(a) > 0 /\ \E fields \in {n, h, d} : Len(fields) > 0
         THEN "Either only all_forecasts_fields list must be specified or at least one of the other field lists"
         ELSE ""

realtime_and_all_forecasts ==
    \E realtime_fields \in OptionalFieldLists,
       all_forecasts_fields \in OptionalFieldLists,
       nowcast_fields \in OptionalFieldLists,
       hourly_fields \in OptionalFieldLists,
       daily_fields \in OptionalFieldLists,
       nowcast_timestep \in {FIVE_MINUTES} :
        Call([name |-> "realtime_and_all_forecasts",
              fields |-> realtime_fields,
              uniform |-> Len(all_forecasts_fields) > 0,
              labels |-> {NOWCAST : n \in DOMAIN nowcast_fields}
                           \cup {HOURLY : n \in DOMAIN hourly_fields}
                           \cup {DAILY : n \in DOMAIN daily_fields},
              error |-> FieldListsError(all_forecasts_fields, nowcast_fields,
                                        hourly_fields, daily_fields)],
             ForecastSubs(all_forecasts_fields, nowcast_fields, hourly_fields,
                          daily_fields, nowcast_timestep)
                \o <<RealtimeSub(realtime_fields, FALSE)>>,
             0)

-----------------------------------------------------------------------------
(* The synchronous functions: process_v4_fields and the static methods *)

\* the lists of at most n names
SeqsUpTo(names, n) == UNION {[1..k -> names] : k \in 0..n}

\* a field of every max_timestep, and a name that is no field
FilterNames == {"temperature", "precipitationType", "hailBinary", "notAField"}

\* a field of 3, 2, 1 and 0 measurements, and a name that is no field
ConvertNames ==
    {"temperature", "weatherCode", "windDirection", "precipitationType",
     "notAField"}

\* timedeltas outside VALID_TIMESTEPS: 10 minutes, 99 minutes, two days
OtherTimesteps == {10, 99, 2 * ONE_DAY}

TypeLists ==
    {None, Some(<<>>), Some(<<TYPE_WEATHER>>), Some(<<TYPE_FIRE>>),
     Some(<<TYPE_POLLEN, TYPE_PRECIPITATION, TYPE_WEATHER>>),
     Some(<<TYPE_SOLAR, TYPE_SOLAR>>), Some(<<"no_type">>)}

\* a call that ends without an await
Static(o, outcome) ==
    /\ pc = "idle"
    /\ op' = o
    /\ result' = outcome.value
    /\ raised' = outcome.raised
    /\ pc' = IF outcome.raised = NoException THEN "returned" ELSE "raised"
    /\ UNCHANGED <<_rate_limits, _num_api_requests, subs, sub, params, i,
                   ret_data, forecasts, all_forecasts, resp, sent, responses>>

process_v4_fields_call ==
    \E fields \in SeqsUpTo(FilterNames, MaxNames),
       timestep \in VALID_TIMESTEPS \cup OtherTimesteps, write_log \in BOOLEAN :
        Static([name |-> "process_v4_fields", fields |-> fields,
                timestep |-> timestep, write_log |-> write_log],
               Returns(process_v4_fields(fields, timestep, write_log)))

available_fields_call ==
    \E timestep \in VALID_TIMESTEPS \cup OtherTimesteps, types \in TypeLists :
        Static([name |-> "available_fields", timestep |-> timestep,
                types |-> types],
               available_fields(timestep, types))

convert_fields_to_measurements_call ==
    \E fields \in SeqsUpTo(ConvertNames, MaxNames) :
        Static([name |-> "convert_fields_to_measurements", fields |-> fields,
                again |-> FALSE],
               convert_fields_to_measurements(fields))

\* convert_fields_to_measurements applied to the list it returned
convert_fields_to_measurements_again ==
    /\ pc = "returned"
    /\ op.name = "convert_fields_to_measurements"
    /\ ~op.again
    /\ LET outcome == convert_fields_to_measurements(result)
       IN /\ op' = [op EXCEPT !.fields = result, !.again = TRUE]
          /\ result' = outcome.value
          /\ raised' = outcome.raised
          /\ pc' = IF outcome.raised = NoException THEN "returned" ELSE "raised"
    /\ UNCHANGED <<_rate_limits, _num_api_requests, subs, sub, params, i,
                   ret_data, forecasts, all_forecasts, resp, sent, responses>>

-----------------------------------------------------------------------------
(* __call_api *)

\* if self._remaining_requests_in_second == 0: await asyncio.sleep(1)
Sleep ==
    /\ pc = "call"
    /\ _remaining_requests_in_second = 0
    /\ pc' = "backoff"
    /\ UNCHANGED <<_rate_limits, _num_api_requests, op, subs, sub, params, i,
                   ret_data, forecasts, all_forecasts, result, raised, resp,
                   sent, responses>>

\* the call is sent without looking at the snapshot
PostAtOnce ==
    /\ pc = "call"
    /\ sent' = Append(sent, [sub |-> sub, i |-> i, slept |-> pc = "backoff",
                             payload |-> Payload(params, subs[sub].fields, i)])
    /\ pc' = "sent"
    /\ resp' = NoResponse
    /\ UNCHANGED <<_rate_limits, _num_api_requests, op, subs, sub, params, i,
                   ret_data, forecasts, all_forecasts, result, raised, responses>>

\* await session.post(...)
Post ==
    /\ \/ pc = "backoff"
       \/ pc = "call" /\ _remaining_requests_in_second # 0
    /\ sent' = Append(sent, [sub |-> sub, i |-> i, slept |-> pc = "backoff",
                             payload |-> Payload(params, subs[sub].fields, i)])
    /\ pc' = "sent"
    /\ resp' = NoResponse
    /\ UNCHANGED <<_rate_limits, _num_api_requests, op, subs, sub, params, i,
                   ret_data, forecasts, all_forecasts, result, raised, responses>>

\* the call is tried again after a connection failure
ConnectionErrorRetried ==
    /\ pc = "sent"
    /\ pc' = "call"
    /\ UNCHANGED <<_rate_limits, _num_api_requests, op, subs, sub, params, i,
                   ret_data, forecasts, all_forecasts, result, raised, resp,
                   sent, responses>>

\* the failed attempt is counted
ConnectionErrorCounted ==
    /\ pc = "sent"
    /\ SetFrame(Raise([Frame EXCEPT !.num = @ + 1],
                      Exception("CantConnectException", <<>>)))
    /\ UNCHANGED <<_rate_limits, op, subs, resp, sent, responses>>

\* except ClientConnectionError as error: raise CantConnectException() from error
ConnectionError ==
    /\ pc = "sent"
    /\ SetFrame(Raise(Frame, Exception("CantConnectException", <<>>)))
    /\ UNCHANGED <<_rate_limits, op, subs, resp, sent, responses>>

Statuses == {HTTPStatus[n] : n \in DOMAIN HTTPStatus}

\* the answers the provider gives: every body shape, every status and every
\* header set, but not every combination of the three
Answers ==
    {a \in [status : Statuses, headers : HeaderSets, shape : Shapes] :
        \/ a.status = HTTPStatus.OK /\ (a.headers = "none" \/ a.shape = "exact")
        \/ a.status = HTTPStatus.PARTIAL_CONTENT /\ a.headers = "none"
              /\ a.shape = "exact"
        \/ a.status = HTTPStatus.BAD_REQUEST /\ a.headers = "none"
              /\ a.shape = "no_data"
        \/ Classify(a.status) # "return" /\ a.shape = "exact"}

\* the response arrives: the snapshot, the status, the merge, the chunk loop
Receive ==
    /\ pc = "sent"
    /\ \E a \in Answers :
        LET headers == HeadersNamed(a.headers)
            resp_json == IF Classify(a.status) = "return"
                         THEN Body(a.shape, sent[Len(sent)].payload, Len(sent))
                         ELSE ErrorBody(a.shape)
        IN /\ resp' = [status |-> a.status, headers |-> headers,
                       json |-> resp_json]
           /\ _rate_limits' = RateLimitsOf(headers)
           /\ responses' = IF Classify(a.status) = "return"
                           THEN Append(responses, [sub |-> sub, data |-> resp_json])
                           ELSE responses
           /\ SetFrame(AfterResponse(Frame, subs, op, a.status, headers,
                                     resp_json))
    /\ UNCHANGED <<op, subs, sent>>

\* the caller has taken the result or the exception; the client, with its
\* snapshot and its counter, is ready for the next operation
Done ==
    /\ pc \in {"returned", "raised"}
    /\ pc' = "idle"
    /\ op' = [name |-> "none"]
    /\ subs' = <<>>
    /\ sub' = 0
    /\ result' = EmptyDict
    /\ raised' = NoException
    /\ resp' = NoResponse
    /\ sent' = <<>>
    /\ responses' = <<>>
    /\ UNCHANGED <<_rate_limits, _num_api_requests, params, i, ret_data,
                   forecasts, all_forecasts>>

-----------------------------------------------------------------------------

Init ==
    /\ _rate_limits = EmptyDict
    /\ _num_api_requests = 0
    /\ pc = "idle"
    /\ op = [name |-> "none"]
    /\ subs = <<>>
    /\ sub = 0
    /\ params = EmptyDict
    /\ i = 0
    /\ ret_data = EmptyDict
    /\ forecasts = EmptyDict
    /\ all_forecasts = EmptyDict
    /\ result = EmptyDict
    /\ raised = NoException
    /\ resp = NoResponse
    /\ sent = <<>>
    /\ responses = <<>>

Next ==
    \/ realtime
    \/ forecast
    \/ forecast_nowcast
    \/ forecast_daily
    \/ forecast_hourly
    \/ all_forecasts_op
    \/ realtime_and_all_forecasts
    \/ Sleep
    \/ Post
    \/ ConnectionError
    \/ Receive
    \/ Done

Spec == Init /\ [][Next]_vars

\* the client's operations together with the synchronous functions
FieldNext ==
    \/ Next
    \/ process_v4_fields_call
    \/ available_fields_call
    \/ convert_fields_to_measurements_call
    \/ convert_fields_to_measurements_again

FieldSpec == Init /\ [][FieldNext]_vars

-----------------------------------------------------------------------------
(* Properties *)

Ceil(n, d) == (n + d - 1) \div d

\* the posts of the j-th realtime() / forecast() invocation, in order
SentOf(j) == SelectSeq(sent, LAMBDA e : e.sub = j)

\* a payload without its field subset
Envelope(p) == [k \in (DOMAIN p) \ {"fields"} |-> p[k]]

\* fields[k*cap : (k+1)*cap] for the k-th call, k counted from 1
Slice(fields, k) ==
    [m \in 1..Min(MAX_FIELDS_PER_REQUEST,
                  Len(fields) - (k - 1) * MAX_FIELDS_PER_REQUEST) |->
        fields[(k - 1) * MAX_FIELDS_PER_REQUEST + m]]

\* C1: realtime and forecast post ceil(n/cap) times for n fields (0 for none);
\* the k-th post carries the k-th consecutive slice of at most cap fields, so
\* the slices partition the list in order, and the posts of one invocation
\* differ in nothing but the field subset.
C1_Chunking ==
    /\ \A j \in DOMAIN subs :
        LET es == SentOf(j)
            fields == subs[j].fields
        IN /\ Len(es) <= Ceil(Len(fields), MAX_FIELDS_PER_REQUEST)
           /\ \A k \in DOMAIN es :
                /\ es[k].payload.fields = Slice(fields, k)
                /\ Len(es[k].payload.fields) \in 1..MAX_FIELDS_PER_REQUEST
                /\ Envelope(es[k].payload) = Envelope(es[1].payload)
    /\ pc = "returned" =>
        \A j \in DOMAIN subs :
            Len(SentOf(j)) = Ceil(Len(subs[j].fields), MAX_FIELDS_PER_REQUEST)

C1_Witness ==
    /\ pc = "returned"
    /\ op.name \in {"realtime", "forecast_daily"}
    /\ Len(op.fields) > MAX_FIELDS_PER_REQUEST
    /\ Len(op.fields) % MAX_FIELDS_PER_REQUEST # 0
    /\ Len(sent) = Len(op.fields) \div MAX_FIELDS_PER_REQUEST + 1

\* the operations that return what forecast() merged
ForecastWrappers == {"forecast_nowcast", "forecast_daily", "forecast_hourly"}
ForecastFamily == {"forecast", "all_forecasts"} \cup ForecastWrappers

\* the labels of a returned forecast and the intervals returned for each
ResultLabels == IF op.name \in ForecastWrappers THEN {op.key} ELSE DOMAIN result
ResultFor(label) == IF op.name \in ForecastWrappers THEN result ELSE result[label]

\* <<n, m>>: the m-th timeline of the n-th body the operation got
TimelineAt(p) == responses[p[1]].data.data.timelines[p[2]]
Before(p, q) == p[1] < q[1] \/ (p[1] = q[1] /\ p[2] < q[2])

\* the timelines that carry a label, over all the bodies
TimelinesFor(label) ==
    {p \in UNION {{<<n, m>> : m \in DOMAIN responses[n].data.data.timelines} :
                    n \in DOMAIN responses} :
        _timestep_to_key(TimelineAt(p).timestep) = label}

FirstTimelineFor(label) ==
    TimelineAt(CHOOSE p \in TimelinesFor(label) :
                  \A q \in TimelinesFor(label) : q = p \/ Before(p, q))

StartTimes(intervals) == [n \in DOMAIN intervals |-> intervals[n].startTime]

\* C2: a forecast's merged result has, for each label, the interval count and
\* the start times of one call's timeline for that label; later chunks add,
\* drop, duplicate or reorder no interval.
C2_IntervalGrid ==
    (pc = "returned" /\ op.name \in ForecastFamily) =>
        \A label \in ResultLabels :
            /\ TimelinesFor(label) # {}
            /\ StartTimes(ResultFor(label))
                 = StartTimes(FirstTimelineFor(label).intervals)

C2_Witness ==
    /\ pc = "returned"
    /\ op.name = "forecast_daily"
    /\ Len(responses) >= 2
    /\ Len(result) = Len(BaseGrid)
    /\ Len(responses[2].data.data.timelines[1].intervals) = Len(LongGrid)

\* every timeline for the label has the grid of the first and a value-map in
\* every interval
SameGrid(label) ==
    \A p \in TimelinesFor(label) :
        /\ "intervals" \in DOMAIN TimelineAt(p)
        /\ StartTimes(TimelineAt(p).intervals)
             = StartTimes(FirstTimelineFor(label).intervals)
        /\ \A n \in DOMAIN TimelineAt(p).intervals :
              "values" \in DOMAIN TimelineAt(p).intervals[n]

ValuesAt(p, idx) == TimelineAt(p).intervals[idx].values

\* the union of the value-maps of interval idx, a later chunk winning
UnionAt(label, idx) ==
    LET ps == TimelinesFor(label)
        last(k) == CHOOSE p \in ps :
                      /\ k \in DOMAIN ValuesAt(p, idx)
                      /\ \A q \in ps : k \in DOMAIN ValuesAt(q, idx) =>
                                          (q = p \/ Before(q, p))
    IN [k \in UNION {DOMAIN ValuesAt(p, idx) : p \in ps} |->
            ValuesAt(last(k), idx)[k]]

\* every body carries, in every interval, exactly the fields of its chunk
ExactFields ==
    /\ Len(responses) = Len(sent)
    /\ \A n \in DOMAIN responses :
        /\ "data" \in DOMAIN responses[n].data
        /\ "timelines" \in DOMAIN responses[n].data.data
        /\ Len(responses[n].data.data.timelines) > 0
        /\ \A m \in DOMAIN responses[n].data.data.timelines :
            LET timeline == responses[n].data.data.timelines[m]
            IN /\ "intervals" \in DOMAIN timeline
               /\ Len(timeline.intervals) > 0
               /\ \A idx \in DOMAIN timeline.intervals :
                    /\ "values" \in DOMAIN timeline.intervals[idx]
                    /\ DOMAIN timeline.intervals[idx].values
                         = Range(sent[n].payload.fields)

\* C3: when the chunk responses of a forecast share one interval grid,
\* interval i of the result holds the union of the chunks' value-maps for
\* interval i, a later chunk overwriting a key it shares; so when every
\* response carries exactly its chunk's fields, the keys of every interval are
\* exactly the requested fields.
C3_PositionalUnion ==
    (pc = "returned" /\ op.name \in ForecastFamily) =>
        \A label \in ResultLabels :
            SameGrid(label) =>
                \A idx \in DOMAIN ResultFor(label) :
                    /\ ResultFor(label)[idx].values = UnionAt(label, idx)
                    /\ ExactFields =>
                         DOMAIN ResultFor(label)[idx].values = Range(op.fields)

C3_Witness ==
    /\ pc = "returned"
    /\ op.name = "all_forecasts"
    /\ Len(responses) = 2
    /\ Len(op.fields) > MAX_FIELDS_PER_REQUEST
    /\ \A label \in {NOWCAST, HOURLY, DAILY} :
        /\ label \in DOMAIN result
        /\ SameGrid(label)
        /\ Len(result[label]) = Len(BaseGrid)
        /\ DOMAIN result[label][1].values = {FieldName(n) : n \in 1..Len(op.fields)}
    /\ result[NOWCAST][1].values[FieldName(1)] = ValueAt(2, BaseGrid[1])
    /\ result[DAILY][1].values[FieldName(1)] # ValueAt(2, BaseGrid[1])

\* the value-map realtime() reads from the n-th body
RealtimeValues(n) == responses[n].data.data.timelines[1].intervals[1].values

\* the flat union of the value-maps, a later chunk winning
RealtimeUnion ==
    LET last(k) == CHOOSE n \in DOMAIN responses :
                      /\ k \in DOMAIN RealtimeValues(n)
                      /\ \A m \in DOMAIN responses :
                            k \in DOMAIN RealtimeValues(m) => m <= n
    IN [k \in UNION {DOMAIN RealtimeValues(n) : n \in DOMAIN responses} |->
            RealtimeValues(last(k))[k]]

\* C4: realtime returns the flat key-union of the value-maps of the first
\* interval of the first timeline of every chunk's response, a later chunk
\* winning on a key both carry; when every response carries exactly its
\* chunk's fields the keys are the requested fields, also beyond the cap.
C4_RealtimeUnion ==
    (pc = "returned" /\ op.name = "realtime") =>
        /\ result = RealtimeUnion
        /\ ExactFields => DOMAIN result = Range(op.fields)

C4_Witness ==
    /\ pc = "returned"
    /\ op.name = "realtime"
    /\ Len(responses) >= 2
    /\ Len(op.fields) > MAX_FIELDS_PER_REQUEST
    /\ Cardinality(DOMAIN result) > MAX_FIELDS_PER_REQUEST
    /\ result[FieldName(1)] = ValueAt(2, BaseGrid[1])

\* the exception a rejected status is answered with
RejectedKind(status) ==
    CASE status = 400 -> "MalformedRequestException"
      [] status = 401 -> "InvalidAPIKeyException"
      [] status = 403 -> "InvalidAPIKeyException"
      [] status = 429 -> "RateLimitedException"

\* C5: a 400 response fails the call with MalformedRequestException, 401 and
\* 403 with InvalidAPIKeyException, 429 with RateLimitedException, each
\* carrying the parsed body and the response headers; nothing is returned.
C5_RejectedStatuses ==
    resp.status \in {400, 401, 403, 429} =>
        /\ pc = "raised"
        /\ raised.kind = RejectedKind(resp.status)
        /\ raised.args = <<resp.json, resp.headers>>
        /\ result = EmptyDict

C5_Witness ==
    /\ pc = "raised"
    /\ resp.status = 403
    /\ raised.kind = "InvalidAPIKeyException"
    /\ raised.args = <<ErrorBody("exact"), ExhaustedHeaders>>
    /\ Len(sent) = 2

\* the header names of the provider that contain "ratelimit" in some casing
RateLimitHeaderNames ==
    {"RateLimit-Limit", "RateLimit-Remaining", "RateLimit-Reset",
     "X-RateLimit-Limit-Day", "X-RateLimit-Limit-Hour",
     "X-RateLimit-Limit-Second", "X-RateLimit-Remaining-Day",
     "X-RateLimit-Remaining-Hour", "X-RateLimit-Remaining-Second",
     "x-ratelimit-remaining-second", "X-RATELIMIT-REMAINING-DAY"}

\* C6: once a response has arrived, whatever its status, the snapshot holds
\* exactly that response's headers whose name contains "ratelimit" in any
\* casing, as integers and looked up case-insensitively; nothing of an earlier
\* response is kept, and a 429 leaves the day/hour/second remaining counters
\* of its headers although the call raised.
C6_Snapshot ==
    resp.status # 0 =>
        /\ DOMAIN _rate_limits = (DOMAIN resp.headers) \cap RateLimitHeaderNames
        /\ \A h \in DOMAIN _rate_limits : _rate_limits[h] = int(resp.headers[h])
        /\ resp.headers = NoRateLimitHeaders => _rate_limits = EmptyDict
        /\ resp.headers = MixedCaseHeaders =>
            /\ Get(_rate_limits, "X-RateLimit-Remaining-Second", -1) = 2
            /\ Get(_rate_limits, "X-RateLimit-Remaining-Day", -1) = 3
            /\ Get(_rate_limits, "X-RateLimit-Remaining-Hour", -1) = -1
        /\ resp.headers = ExhaustedHeaders =>
            /\ Get(_rate_limits, "x-ratelimit-remaining-day", -1) = 484
            /\ Get(_rate_limits, "X-RateLimit-Remaining-Hour", -1) = 22
            /\ Get(_rate_limits, "X-RateLimit-Remaining-Second", -1) = 0
            /\ Get(_rate_limits, "RateLimit-Reset", -1) = 1
        /\ resp.status = 429 => pc = "raised"

\* a 429 with two rate-limit headers, after a response that had nine
C6_Witness ==
    /\ pc = "raised"
    /\ resp.status = 429
    /\ resp.headers = MixedCaseHeaders
    /\ Len(sent) >= 2
    /\ sent[Len(sent)].slept
    /\ Cardinality(DOMAIN _rate_limits) = 2

\* C7: a status outside {200, 206, 400, 401, 403, 429} never returns a body:
\* from 400 up the transport's response error propagates unwrapped, any other
\* status fails with UnknownException carrying body and headers.
C7_OtherStatuses ==
    (resp.status # 0 /\ resp.status \notin {200, 206, 400, 401, 403, 429}) =>
        /\ pc = "raised"
        /\ result = EmptyDict
        /\ IF resp.status >= 400
           THEN raised.kind = "ClientResponseError"
           ELSE /\ raised.kind = "UnknownException"
                /\ raised.args = <<resp.json, resp.headers>>

C7_Witness ==
    /\ pc = "raised"
    /\ \/ resp.status = 502 /\ raised.kind = "ClientResponseError"
       \/ resp.status = 308 /\ raised.kind = "UnknownException"
    /\ Len(sent) = 2

\* the posts of the chunk that was posted last
PostsOfLastChunk ==
    {n \in DOMAIN sent : /\ sent[n].sub = sent[Len(sent)].sub
                         /\ sent[n].i = sent[Len(sent)].i}

\* C8: a connection failure before a response fails the call with
\* CantConnectException after one post and no retry, and leaves the request
\* counter and the rate-limit snapshot as they were.
C8_CantConnect ==
    /\ [][(pc = "sent" /\ raised'.kind = "CantConnectException") =>
            /\ pc' = "raised"
            /\ result' = EmptyDict
            /\ UNCHANGED <<_rate_limits, _num_api_requests, sent>>]_vars
    /\ [][raised.kind = "CantConnectException" => pc' = "idle"]_vars
    /\ [](raised.kind = "CantConnectException" =>
            pc = "raised" /\ Cardinality(PostsOfLastChunk) = 1)

C8_Witness ==
    /\ pc = "raised"
    /\ raised.kind = "CantConnectException"
    /\ Len(sent) = 2
    /\ _num_api_requests = 1
    /\ Cardinality(DOMAIN _rate_limits) > 0

\* the operation failed with UnknownException carrying the raw body
RaisedUnknownShape ==
    /\ pc = "raised"
    /\ raised.kind = "UnknownException"
    /\ raised.args = <<resp.json>>
    /\ result = EmptyDict

\* the first chunk of the running invocation was answered well-formed, so
\* every label has stored intervals that a later chunk is merged into
FirstChunkGood ==
    \E n \in 1..(Len(responses) - 1) :
        /\ sent[n].sub = sent[Len(sent)].sub
        /\ sent[n].i = 0
        /\ \E shape \in GoodShapes :
              responses[n].data = Body(shape, sent[n].payload, n)

\* the body just received is of the shape, and the merge reads what it lacks
LacksNeeded(shape) ==
    LET last == sent[Len(sent)]
        kind == subs[last.sub].kind
    IN /\ resp.json = Body(shape, last.payload, Len(sent))
       /\ IF kind = "realtime"
          THEN shape \in {"no_data", "no_timelines", "empty_timelines",
                          "no_intervals", "empty_intervals", "no_values"}
          ELSE \/ shape \in {"no_data", "no_timelines", "no_timestep"}
               \/ shape = "no_intervals" /\ (last.i = 0 \/ FirstChunkGood)
               \/ shape = "no_values" /\ FirstChunkGood

\* C9: a success response that lacks data, timelines, intervals or values
\* where the merge reads them makes realtime and forecast raise
\* UnknownException with the raw body; nothing partial is returned.
C9_MalformedBody ==
    resp.status \in {200, 206} =>
        \A shape \in BadShapes : LacksNeeded(shape) => RaisedUnknownShape

C9_Witness ==
    /\ RaisedUnknownShape
    /\ resp.status = 200
    /\ subs[sub].kind = "forecast"
    /\ Len(sent) = 2
    /\ LacksNeeded("no_values")

\* the operation began by resetting the counter
Outermost == op.name = "realtime_and_all_forecasts" \/ subs[1].reset

\* C10: the counter is 0 when a top-level operation starts and goes up by one
\* with every 200/206 response, also across the sub-requests of
\* realtime_and_all_forecasts, so after a normal return it is the number of
\* provider calls the operation made.
C10_RequestCount ==
    (op.name # "none" /\ Outermost) =>
        /\ _num_api_requests = Len(responses)
        /\ pc = "returned" => _num_api_requests = Len(sent)

C10_Witness ==
    /\ pc = "returned"
    /\ op.name = "realtime_and_all_forecasts"
    /\ Len(subs) = 4
    /\ _num_api_requests = 4

\* realtime_and_all_forecasts was given no forecast field list at all
NoFieldLists == ~op.uniform /\ op.labels = {}

\* realtime_and_all_forecasts was given all_forecasts_fields and a
\* per-resolution field list
BothInputModes == op.uniform /\ op.labels # {}

\* C11: realtime_and_all_forecasts raises ValueError before any provider call
\* when it is given no forecast field list, and when it is given
\* all_forecasts_fields together with a per-resolution field list.
C11_FieldListModes ==
    (op.name = "realtime_and_all_forecasts" /\ (NoFieldLists \/ BothInputModes))
        => /\ pc = "raised"
           /\ raised.kind = "ValueError"
           /\ sent = <<>>
           /\ _num_api_requests = 0
           /\ result = EmptyDict

C11_Witness ==
    /\ op.name = "realtime_and_all_forecasts"
    /\ BothInputModes
    /\ NOWCAST \in op.labels
    /\ raised.kind = "ValueError"
    /\ Cardinality(DOMAIN _rate_limits) > 0

\* the catalog fields obtainable at a resolution, in catalog order
EligibleAt(resolution) ==
    SelectSeq(FieldNames, LAMBDA f : FIELDS_V4[f].max_timestep >= resolution)

\* the catalog fields of the categories, in catalog order
OfCategories(names, categories) ==
    SelectSeq(names, LAMBDA f : FIELDS_V4[f].type \in categories)

\* C12: for every valid resolution available_fields returns the catalog
\* fields whose max_timestep is coarser than or equal to the resolution, in
\* catalog order, and with a category list supplied (an empty one included)
\* those of them whose category is in the list.
C12_AvailableFields ==
    (op.name = "available_fields" /\ op.timestep \in VALID_TIMESTEPS) =>
        /\ pc = "returned"
        /\ result = IF op.types.given
                    THEN OfCategories(EligibleAt(op.timestep),
                                      Range(op.types.list))
                    ELSE EligibleAt(op.timestep)

\* the timedeltas forecast accepts, in minutes
ForecastMinutes == {24 * 60, 60, 30, 15, 5, 1}

\* C13: a resolution outside the fixed set is rejected with InvalidTimestep
\* and no provider call: by available_fields for a timestep outside
\* VALID_TIMESTEPS, by forecast and forecast_nowcast for a timestep other than
\* 1 day, 1 hour, 30, 15, 5 or 1 minutes, before the first chunk is sent.
C13_InvalidTimestep ==
    /\ (op.name = "available_fields" /\ op.timestep \notin VALID_TIMESTEPS) =>
          /\ pc = "raised"
          /\ raised.kind = "InvalidTimestep"
          /\ result = EmptyDict
          /\ sent = <<>>
    /\ (/\ op.name \in {"forecast", "forecast_nowcast"}
        /\ \E n \in DOMAIN subs[1].timesteps :
              subs[1].timesteps[n] \notin ForecastMinutes) =>
          /\ pc = "raised"
          /\ raised.kind = "InvalidTimestep"
          /\ result = EmptyDict
          /\ sent = <<>>

C13_Witness ==
    /\ op.name = "forecast"
    /\ subs[1].timesteps = <<ONE_HOUR, 99>>
    /\ Len(subs[1].fields) > 0
    /\ raised.kind = "InvalidTimestep"
    /\ pc = "raised"

\* the name is a catalog field
InCatalog(f) == \E k \in DOMAIN FieldTable : FieldTable[k].name = f

\* the name is a catalog field obtainable at the resolution
Obtainable(f, resolution) ==
    \E k \in DOMAIN FieldTable :
        /\ FieldTable[k].name = f
        /\ FieldTable[k].definition.max_timestep >= resolution

\* the positions of the input whose field is obtainable
KeptPositions == {n \in DOMAIN op.fields : Obtainable(op.fields[n], op.timestep)}

UnknownNames == {f \in Range(op.fields) : ~InCatalog(f)}

IneligibleNames ==
    {f \in Range(op.fields) : InCatalog(f) /\ ~Obtainable(f, op.timestep)}

\* C14: for every resolution and field list process_v4_fields returns, in
\* input order, exactly the input fields that are in the catalog and whose
\* max_timestep is not finer than the resolution; it never raises, and it
\* reports the unknown names and the ineligible fields each in a warning that
\* names exactly the removed ones.
C14_FilterByResolution ==
    op.name = "process_v4_fields" =>
        /\ pc = "returned"
        /\ Len(result.value) = Cardinality(KeptPositions)
        /\ \A n \in KeptPositions :
              result.value[Cardinality({m \in KeptPositions : m <= n})]
                  = op.fields[n]
        /\ \A n \in DOMAIN result.value : Obtainable(result.value[n], op.timestep)
        /\ result.warnings =
              IF op.write_log
              THEN (IF UnknownNames # {}
                    THEN <<[msg |-> "Removed invalid fields: %s",
                            args |-> <<UnknownNames>>]>>
                    ELSE <<>>)
                   \o
                   (IF IneligibleNames # {}
                    THEN <<[msg |-> "Removed fields not available for %s timestep: %s",
                            args |-> <<op.timestep, IneligibleNames>>]>>
                    ELSE <<>>)
              ELSE <<>>

C14_Witness ==
    /\ op.name = "process_v4_fields"
    /\ op.fields = <<"precipitationType", "temperature">>
    /\ op.timestep = ONE_DAY
    /\ op.write_log
    /\ result.value = <<"temperature">>
    /\ Len(result.warnings) = 1

\* the measurement suffixes the catalog declares for a field, in its order
SuffixesOf(f) ==
    FieldTable[CHOOSE k \in DOMAIN FieldTable : FieldTable[k].name = f]
        .definition.measurements

\* the number of names a field contributes
NamesFor(f) == IF Len(SuffixesOf(f)) >= 2 THEN Len(SuffixesOf(f)) ELSE 1

\* the number of names the first n fields of a list contribute
RECURSIVE NamesBefore(_, _)
NamesBefore(fields, n) ==
    IF n = 0 THEN 0 ELSE NamesBefore(fields, n - 1) + NamesFor(fields[n])

\* C15: convert_fields_to_measurements maps each catalog field of its input,
\* in input order, to field+suffix for every catalog suffix in catalog order
\* when the field has two or more suffixes, and to the bare name when it has
\* one or none: k >= 2 suffixes give k names, any other field gives one.
C15_Measurements ==
    (/\ op.name = "convert_fields_to_measurements"
     /\ \A n \in DOMAIN op.fields : InCatalog(op.fields[n])) =>
        /\ pc = "returned"
        /\ Len(result) = NamesBefore(op.fields, Len(op.fields))
        /\ \A n \in DOMAIN op.fields :
              LET f == op.fields[n]
                  at == NamesBefore(op.fields, n - 1)
              IN IF Len(SuffixesOf(f)) >= 2
                 THEN \A j \in DOMAIN SuffixesOf(f) :
                          result[at + j] = f \o SuffixesOf(f)[j]
                 ELSE result[at + 1] = f

C15_Witness ==
    /\ op.name = "convert_fields_to_measurements"
    /\ ~op.again
    /\ op.fields = <<"weatherCode", "windDirection">>
    /\ result = <<"weatherCodeMin", "weatherCodeMax", "windDirection">>

\* C16: convert_fields_to_measurements applied to its own output changes
\* nothing: the suffixed names are not catalog fields and pass through, so
\* expand(expand(x)) = expand(x) for every list x of catalog fields.
C16_Idempotent ==
    (op.name = "convert_fields_to_measurements" /\ op.again) =>
        /\ pc = "returned"
        /\ result = op.fields

\* the snapshot has an entry for the provider's per-day limit
HasDayLimit ==
    \E k \in DOMAIN _rate_limits : lower(k) = "x-ratelimit-limit-day"

\* C17: max_requests_per_day is 100 while the snapshot has no daily-limit
\* entry, and after a response with rate-limit headers it is the provider's
\* per-day limit of that response (500 for a day limit of 500 and an hour
\* limit of 25).
C17_MaxRequestsPerDay ==
    /\ ~HasDayLimit => max_requests_per_day = 100
    /\ HasDayLimit =>
          max_requests_per_day =
              _rate_limits[CHOOSE k \in DOMAIN _rate_limits :
                              lower(k) = "x-ratelimit-limit-day"]
    /\ (resp.status # 0 /\ resp.headers = ExhaustedHeaders) =>
          max_requests_per_day = 500

\* what forecast() alone makes of the bodies the s-th sub-request got, up to
\* the n-th body of the operation
RECURSIVE StandaloneForecast(_, _)
StandaloneForecast(s, n) ==
    IF n = 0 THEN EmptyDict
    ELSE IF sent[n].sub = s
         THEN MergeForecast(StandaloneForecast(s, n - 1), responses[n].data).value
         ELSE StandaloneForecast(s, n - 1)

\* what realtime() alone makes of the bodies the s-th sub-request got
RECURSIVE StandaloneRealtime(_, _)
StandaloneRealtime(s, n) ==
    IF n = 0 THEN EmptyDict
    ELSE IF sent[n].sub = s
         THEN MergeRealtime(StandaloneRealtime(s, n - 1), responses[n].data).value
         ELSE StandaloneRealtime(s, n - 1)

ForecastSubsOf == {s \in DOMAIN subs : subs[s].kind = "forecast"}

\* every body is a well-formed answer to its request
AllAnswered ==
    \A n \in DOMAIN responses :
        \E shape \in GoodShapes :
            responses[n].data = Body(shape, sent[n].payload, n)

\* C18: realtime_and_all_forecasts returns {current, forecasts}: current is
\* the realtime value-map, forecasts has one entry per requested label
\* (nowcast, hourly and daily in uniform mode, the labels whose list was given
\* otherwise), and each label's intervals are what a forecast for that
\* resolution alone makes of its own responses, whatever the others got.
C18_Aggregate ==
    (pc = "returned" /\ op.name = "realtime_and_all_forecasts") =>
        /\ DOMAIN result = {CURRENT, FORECASTS}
        /\ result.current = StandaloneRealtime(Len(subs), Len(responses))
        /\ DOMAIN result.forecasts =
              UNION {DOMAIN StandaloneForecast(s, Len(responses)) :
                        s \in ForecastSubsOf}
        /\ \A s \in ForecastSubsOf :
              \A label \in DOMAIN StandaloneForecast(s, Len(responses)) :
                  result.forecasts[label]
                      = StandaloneForecast(s, Len(responses))[label]
        /\ AllAnswered =>
              DOMAIN result.forecasts =
                  IF op.uniform THEN {NOWCAST, HOURLY, DAILY} ELSE op.labels

C18_Witness ==
    /\ pc = "returned"
    /\ op.name = "realtime_and_all_forecasts"
    /\ ~op.uniform
    /\ op.labels = {NOWCAST, HOURLY, DAILY}
    /\ AllAnswered
    /\ DOMAIN result.forecasts = {NOWCAST, HOURLY, DAILY}
    /\ result.forecasts[HOURLY][1].values[FieldName(1)] = ValueAt(2, BaseGrid[1])
    /\ DOMAIN result.current = {FieldName(1)}
    /\ result.current[FieldName(1)] = ValueAt(4, BaseGrid[1])

\* the snapshot shows zero remaining calls for the current second
ZeroRemaining ==
    \E k \in DOMAIN _rate_limits :
        lower(k) = "x-ratelimit-remaining-second" /\ _rate_limits[k] = 0

\* the step sends a provider call
Sends == Len(sent') = Len(sent) + 1

\* C19: before each provider call the operation pauses exactly when the
\* snapshot shows zero remaining calls for the current second, and after the
\* pause the call is sent once; with a non-zero value or no entry (the first
\* call) it is sent without a pause.
C19_Backoff ==
    /\ [][Sends => /\ sent'[Len(sent')].slept = ZeroRemaining
                   /\ pc = IF ZeroRemaining THEN "backoff" ELSE "call"
                   /\ pc' = "sent"
                   /\ UNCHANGED <<_rate_limits, _num_api_requests, responses>>]_vars
    /\ [][pc = "backoff" => Sends]_vars
    /\ [][pc' = "backoff" => pc = "call" /\ sent' = sent]_vars
    /\ [](pc = "backoff" => ZeroRemaining)

C19_Witness ==
    /\ pc = "sent"
    /\ Len(sent) = 2
    /\ sent[1].slept
    /\ ~sent[2].slept
    /\ Cardinality(DOMAIN _rate_limits) = 2

\* the chunk a post carries: the sub-request and the offset into its fields
ChunkOf(n) == <<sent[n].sub, sent[n].i>>

\* C20: within one operation the provider calls are issued one at a time, a
\* call only after the one before it was answered with success and merged;
\* each call goes from idle through an optional backoff to sent and from there
\* to exactly one of success, rejection or connection failure, never back to
\* sent: no chunk and no sub-request is sent twice.
C20_Sequential ==
    /\ [](/\ \A n, m \in DOMAIN sent : n < m =>
                \/ sent[n].sub < sent[m].sub
                \/ sent[n].sub = sent[m].sub /\ sent[n].i < sent[m].i
          /\ pc = "sent" => Len(responses) = Len(sent) - 1
          /\ pc \in {"call", "backoff"} => Len(responses) = Len(sent)
          /\ Len(sent) - Len(responses) \in {0, 1})
    /\ [][Sends => pc \in {"call", "backoff"} /\ pc' = "sent"]_vars
    /\ [][pc = "sent" =>
            /\ sent' = sent
            /\ \/ /\ resp'.status \in {200, 206}
                  /\ Len(responses') = Len(responses) + 1
                  /\ pc' \in {"call", "returned", "raised"}
               \/ /\ resp'.status \notin {0, 200, 206}
                  /\ responses' = responses
                  /\ pc' = "raised"
               \/ /\ resp'.status = 0
                  /\ responses' = responses
                  /\ pc' = "raised"
                  /\ raised'.kind = "CantConnectException"]_vars

C20_Witness ==
    /\ pc = "sent"
    /\ op.name = "realtime_and_all_forecasts"
    /\ Len(sent) = 4
    /\ Len(responses) = 3
    /\ sent[3].slept
    /\ ChunkOf(4) = <<4, 0>>

\* the exceptions a provider call ends with
CallFailures ==
    {"CantConnectException", "MalformedRequestException",
     "InvalidAPIKeyException", "RateLimitedException", "ClientResponseError",
     "UnknownException"}

\* C21: in an operation of several chunks or sub-requests the first provider
\* call that fails ends the operation: the failure reaches the caller, no
\* later chunk or sub-request is sent, and nothing merged so far is returned.
C21_AbortOnFailure ==
    /\ [](pc = "raised" => result = EmptyDict)
    /\ [](resp.status \notin {0, 200, 206} => pc = "raised")
    /\ [][(pc = "sent" /\ resp'.status \notin {200, 206}) =>
            /\ pc' = "raised"
            /\ raised'.kind \in CallFailures
            /\ result' = EmptyDict
            /\ sent' = sent
            /\ responses' = responses]_vars
    /\ [][pc = "raised" => pc' = "idle" /\ sent' = <<>>]_vars

C21_Witness ==
    /\ pc = "raised"
    /\ op.name = "realtime_and_all_forecasts"
    /\ Len(subs) = 4
    /\ Len(sent) = 2
    /\ Len(responses) = 1
    /\ sent[2].sub = 2
    /\ resp.status = 429
    /\ raised.kind = "RateLimitedException"

\* C22: the request counter goes up by one for every provider call that is
\* sent, whatever its outcome, so after any top-level operation, returned or
\* raised, num_api_requests is the number of provider calls it made.
C22_CountsEveryCall ==
    (pc \in {"returned", "raised"} /\ op.name # "none" /\ Outermost) =>
        _num_api_requests = Len(sent)

\* the body has no data.timelines
NoTimelines(body) ==
    "data" \notin DOMAIN body \/ "timelines" \notin DOMAIN body.data

\* the last call was made by forecast() and answered with success
ForecastAnswered ==
    /\ resp.status \in {200, 206}
    /\ subs[sent[Len(sent)].sub].kind = "forecast"

\* C23 as the claim has it: in forecast a chunk response without
\* data.timelines contributes no intervals and is no error; the operation goes
\* on with the remaining chunks.
C23_MissingTimelinesSkipped ==
    (ForecastAnswered /\ NoTimelines(resp.json)) => pc # "raised"

\* C23 as the code has it: in forecast a chunk response without
\* data.timelines ends the operation with UnknownException carrying the body;
\* no later chunk is sent and the intervals of the earlier chunks are not
\* returned.
C23_MissingTimelinesRaise ==
    (ForecastAnswered /\ NoTimelines(resp.json)) =>
        /\ pc = "raised"
        /\ raised.kind = "UnknownException"
        /\ raised.args = <<resp.json>>
        /\ result = EmptyDict

C23_Witness ==
    /\ ForecastAnswered
    /\ op.name = "forecast_nowcast"
    /\ Len(sent) = 2
    /\ sent[2].i = MAX_FIELDS_PER_REQUEST
    /\ Len(responses) = 2
    /\ resp.json = [data |-> EmptyDict]
    /\ raised.kind = "UnknownException"

\* the timelines of the first body the operation got
FirstTimelines == responses[1].data.data.timelines

\* C24: forecast keys its result by resolution label so that every timeline
\* of the first chunk's response is stored as it is under a label of its own,
\* for any list of valid resolutions, two minute-level ones included: no
\* timeline's intervals are merged into or overwritten by another's.
C24_OwnLabel ==
    (pc = "returned" /\ op.name = "forecast" /\ Len(responses) = 1
        /\ AllAnswered) =>
        /\ Cardinality(DOMAIN result) = Len(FirstTimelines)
        /\ \A m \in DOMAIN FirstTimelines :
              \E label \in DOMAIN result :
                  result[label] = FirstTimelines[m].intervals

\* the posts that open a sub-request after the first one
OpensLaterSub(n) == n > 1 /\ sent[n].sub # sent[n - 1].sub

\* C25: in realtime_and_all_forecasts a one-second pause precedes every
\* sub-request after the first, whatever the rate-limit snapshot says.
C25_PauseBetweenSubs ==
    op.name = "realtime_and_all_forecasts" =>
        \A n \in DOMAIN sent : OpensLaterSub(n) => sent[n].slept

\* the posts made for a forecast() invocation
ForecastPosts == {n \in DOMAIN sent : subs[sent[n].sub].kind = "forecast"}

\* the instant a datetime names, in seconds of UTC; a naive one is read as UTC
Instant(dt) == IF dt.aware THEN dt.seconds - dt.utcoffset ELSE dt.seconds

\* an instant written in UTC with second precision; a text without an offset
\* is read as UTC too
UtcTexts(instant) ==
    {isoformat(datetime(instant, 0, TRUE, 0)),
     isoformat(datetime(instant, 0, FALSE, 0))}

\* the start the caller asked for
AskedStart(s) == Instant(IF s.start_time.given THEN s.start_time ELSE Now)

\* C26: every forecast envelope carries startTime in UTC with second
\* precision (the call time by default, a naive start_time read as UTC, a
\* start_time of another zone converted to UTC), and endTime exactly when a
\* duration was given, equal to startTime + duration.
C26_UtcEnvelope ==
    \A n \in ForecastPosts :
        LET s == subs[sent[n].sub]
            payload == sent[n].payload
        IN /\ payload.startTime \in UtcTexts(AskedStart(s))
           /\ "endTime" \in DOMAIN payload <=> s.duration.given
           /\ s.duration.given =>
                 payload.endTime \in UtcTexts(AskedStart(s) + s.duration.seconds)

\* the errors of a failed lookup, which the library does not classify
LookupErrors == {"KeyError", "IndexError"}

\* C27: forecast_daily, forecast_hourly and forecast_nowcast return the
\* intervals stored under their own label or fail with a typed error of the
\* library; neither an empty field list nor a success response without a
\* timeline for the resolution surfaces as a bare lookup error.
C27_NoBareLookupError ==
    op.name \in ForecastWrappers =>
        /\ pc = "raised" => raised.kind \notin LookupErrors
        /\ pc = "returned" =>
              /\ op.key \in DOMAIN StandaloneForecast(1, Len(responses))
              /\ result = StandaloneForecast(1, Len(responses))[op.key]

\* the six categories of the catalog
Categories ==
    {TYPE_WEATHER, TYPE_POLLEN, TYPE_AIR_QUALITY, TYPE_FIRE, TYPE_SOLAR,
     TYPE_PRECIPITATION}

\* every entry has one max_timestep of the valid resolutions and measurements
\* among Min, Max and Avg, and the entries span the six categories
CatalogWellFormed ==
    /\ Cardinality(DOMAIN FIELDS_V4) = Len(FieldTable)
    /\ {FIELDS_V4[name].type : name \in DOMAIN FIELDS_V4} = Categories
    /\ \A name \in DOMAIN FIELDS_V4 :
          /\ FIELDS_V4[name].max_timestep \in VALID_TIMESTEPS
          /\ Range(FIELDS_V4[name].measurements) \subseteq {MIN, MAX, AVG}

\* the positions an operation can be at
Positions == {"idle", "call", "backoff", "sent", "returned", "raised"}

\* C28: the field catalog has at least 40 entries spanning the six
\* categories, each with one max_timestep of the valid resolutions and a
\* measurement list within {Min, Max, Avg}, and no operation changes it.
C28_Catalog ==
    pc \in Positions =>
        /\ Cardinality(DOMAIN FIELDS_V4) >= 40
        /\ CatalogWellFormed

====
